---- MODULE Spec2Model ----
(***************************************************************************)
(* Session and conversation-context management of the Telegram AI bot.     *)
(*                                                                         *)
(*   app/backend/ai_agent.py   AIAgent: conversation_memory (cache), the   *)
(*                             user_sessions table, the conversations log  *)
(*   app/backend/api.py        /chat and /sessions/clear endpoints         *)
(*   app/bot/middleware.py     rate_limiter                                *)
(*   app/bot/handlers.py       BotHandlers: user_sessions map, /clear      *)
(*   app/utils/session.py      SessionManager                              *)
(*                                                                         *)
(* A message text is identified by the number of the request that carries  *)
(* it, so that every message of a context can be told from every other.    *)
(***************************************************************************)
EXTENDS Integers, Sequences, FiniteSets, TLC

VARIABLES
    conversation_memory,   \* AIAgent.conversation_memory: session_id -> context
    db_sessions,           \* table user_sessions: <<user_id, session_id>> -> row
    db_conversations,      \* table conversations: sequence of audit records
    reqs,                  \* process_message calls in flight: id -> frame
    last_response,         \* the ChatResponse returned last
    running,               \* the call that holds the backend's event loop, 0 = idle
    nreq,                  \* number of /chat requests received so far
    nfault,                \* number of failures, clears and restarts so far
    now,                   \* the clock, in seconds
    turns,                 \* history: per <<user, session>> the committed turns
    discarded,             \* history: <<session_id, message>> cut off by a truncation
    last_clear,            \* history: the clear_session call just made, if the
                           \* engine took no other step since
    user_message_times,    \* middleware.py: user_id -> deque of admission times
    updates,               \* rate_limiter wrappers in flight: id -> frame
    bot_running,           \* the wrapper that holds the bot's event loop, 0 = idle
    nupd,                  \* number of updates received so far
    rate_log,              \* history: per user the decisions <<time, admitted>>
    user_sessions,         \* BotHandlers.user_sessions: user_id -> session_id
    clearing,              \* users whose clear_command waits for the backend
    agent_sessions,        \* app/database.py user_sessions: session_id -> row
    agent_conversations,   \* app/database.py conversations: sequence of records
    agent_result,          \* what app/ai_agent.py process_message returned last
    agent_calls,           \* number of calls of that process_message so far
    agent_turns,           \* history: per user the turns that succeeded, and
                           \* the turns that failed after their records were saved
    agent_op,              \* history: the operation of the agent that ran last
    agent_last,            \* history: per user the session of the last call without
                           \* session id, None after a clear or a reap
    agent_stats,           \* what get_user_stats returned last, or that it raised
    agent_prompts,         \* the message lists the last process_message call sent
                           \* to the model, one per ChatCompletion.create call
    cfg                    \* the configuration a specification runs under

engineVars == <<conversation_memory, db_sessions, db_conversations, reqs, last_response, running,
                nreq, nfault, turns, discarded, last_clear>>

rateVars == <<user_message_times, updates, bot_running, nupd, rate_log>>

botVars == <<user_sessions, clearing>>

agentVars == <<agent_sessions, agent_conversations, agent_result, agent_calls, agent_turns,
               agent_op, agent_last, agent_stats, agent_prompts>>

vars == <<conversation_memory, db_sessions, db_conversations, reqs, last_response, running,
          nreq, nfault, now, turns, discarded, last_clear, user_message_times, updates,
          bot_running,
          nupd, rate_log, user_sessions, clearing, agent_sessions,
          agent_conversations, agent_result, agent_calls, agent_turns, agent_op,
          agent_last, agent_stats, agent_prompts, cfg>>

----------------------------------------------------------------------------
(* Bounds of the model. *)

NumUsers == 2
MaxReq == 2
MaxFaults == 2
MaxInFlight == 2
TurnsMaxReq == 12
TurnsMaxFaults == 2
MaxTime == 4
MaxUpdates == 4
BotMaxTime == 1
MaxAgentCalls == 3
LiveMaxReq == 2
LiveMaxFaults == 1
MaxTokens == 2
ReapMaxCalls == 2
ReapMaxTime == 3
ClearMaxReq == 1
ClearMaxFaults == 4

(* Settings read from the environment (core/config.py 36-37); the defaults
   there are 10 messages per 60 seconds. *)

RATE_LIMIT_MESSAGES == 2
RATE_LIMIT_WINDOW == 2

(* Setting read from the environment (config.py 33); the default there is
   3600 seconds. *)

session_timeout == 1

(* Program constants. *)

MaxContext == 20
KeepLast == 19
HistoryLimit == 20

Users == 1..NumUsers

----------------------------------------------------------------------------
(* Messages and contexts. *)

Msg(role, content) == [role |-> role, content |-> content]

\* ai_agent.py 100-105: the default system context
DefaultContext == << Msg("system", 0) >>

UserMsg(id) == Msg("user", id)
AssistantMsg(id) == Msg("assistant", id)

\* UserSession.context is NULL
NULL == << >>

\* json.dumps of a list of {"role", "content"} dicts: the text form, one
\* <<role, content>> pair per message, in order
json_dumps(context) ==
    [i \in 1..Len(context) |-> <<context[i].role, context[i].content>>]

\* json.loads of such a text: back to a list of dicts
json_loads(text) ==
    [i \in 1..Len(text) |-> [role |-> text[i][1], content |-> text[i][2]]]

Last(seq, n) == SubSeq(seq, Len(seq) - n + 1, Len(seq))

Min(a, b) == IF a < b THEN a ELSE b

Restrict(f, S) == [x \in (DOMAIN f) \cap S |-> f[x]]

KeysOf(s) == {<<u, s>> : u \in Users}

----------------------------------------------------------------------------
(* AIAgent (app/backend/ai_agent.py). *)

\* context[-20:]: the system message is not kept
TruncateDropsSeed(context) ==
    IF Len(context) > MaxContext THEN Last(context, MaxContext) ELSE context

\* context[:1] + context[-20:]: one message too many
TruncateKeepsTwenty(context) ==
    IF Len(context) > MaxContext
    THEN SubSeq(context, 1, 1) \o Last(context, MaxContext)
    ELSE context

\* context[:20]: the oldest messages are kept instead of the newest
TruncateKeepsOldest(context) ==
    IF Len(context) > MaxContext THEN SubSeq(context, 1, MaxContext) ELSE context

\* _update_session_context, lines 110-111:
\*   if len(context) > 20: context = context[:1] + context[-19:]
Truncate(context) ==
    IF Len(context) > MaxContext
    THEN SubSeq(context, 1, 1) \o Last(context, KeepLast)
    ELSE context

\* the messages of a context that a truncation leaves out, with their session
Cut(s, full, kept) ==
    {<<s, full[i]>> : i \in {j \in 1..Len(full) : \A n \in 1..Len(kept) : kept[n] # full[j]}}

\* A row of user_sessions as the engine inserts it (lines 128-132): the
\* columns it does not set take the table's defaults.
NewSessionRow(text, t) ==
    [context |-> text, is_active |-> TRUE, updated_at |-> t]

\* _get_session_context(user_id, session_id): the context it returns and the
\* cache it leaves. readOk = FALSE is the query raising (lines 94-95).
GetSessionContext(memory, rows, u, s, readOk) ==
    IF s \in DOMAIN memory
    THEN [context |-> memory[s], memory |-> memory]
    ELSE IF /\ readOk
            /\ <<u, s>> \in DOMAIN rows
            /\ rows[<<u, s>>].is_active
            /\ rows[<<u, s>>].context # NULL
         THEN LET context == json_loads(rows[<<u, s>>].context)
              IN  [context |-> context,
                   memory  |-> [x \in (DOMAIN memory) \cup {s} |->
                                   IF x = s THEN context ELSE memory[x]]]
         ELSE [context |-> DefaultContext, memory |-> memory]

\* the cached list itself is returned and appended to
MemoryAfterAppendAliased(memory, s, msg) ==
    IF s \in DOMAIN memory THEN [memory EXCEPT ![s] = Append(@, msg)] ELSE memory

\* process_message line 31, context.append(user message): what the cache holds
\* afterwards. The list appended to is the .copy() of lines 79 and 93, so the
\* cached list is not touched.
MemoryAfterAppend(memory, s, msg) == memory

\* _update_session_context lines 113-114: the cache after the put
MemoryPut(memory, s, context) ==
    [x \in (DOMAIN memory) \cup {s} |-> IF x = s THEN context ELSE memory[x]]

\* _update_session_context lines 117-140: the table after the write; the
\* lookup is by user_id and session_id, whatever is_active says.
\* dbOk = FALSE is the write raising: rollback, the error is only printed.
RowsPut(rows, u, s, context, t, dbOk) ==
    IF ~dbOk THEN rows
    ELSE IF <<u, s>> \in DOMAIN rows
         THEN [rows EXCEPT ![<<u, s>>].context = json_dumps(context),
                           ![<<u, s>>].updated_at = t]
         ELSE [k \in (DOMAIN rows) \cup {<<u, s>>} |->
                  IF k = <<u, s>> THEN NewSessionRow(json_dumps(context), t)
                  ELSE rows[k]]

\* _log_conversation lines 142-158: one Conversation row per turn
LogPut(log, u, id, logOk) ==
    IF logOk
    THEN Append(log, [user_id |-> u, message |-> id, response |-> id])
    ELSE log

\* clear_session lines 162-163
MemoryEvict(memory, s) == Restrict(memory, (DOMAIN memory) \ {s})

\* the flag of the matching rows is flipped instead of set
RowsToggle(rows, u, s, dbOk) ==
    IF dbOk /\ <<u, s>> \in DOMAIN rows
    THEN [rows EXCEPT ![<<u, s>>].is_active = ~@]
    ELSE rows

\* clear_session lines 165-176
RowsDeactivate(rows, u, s, dbOk) ==
    IF dbOk /\ <<u, s>> \in DOMAIN rows
    THEN [rows EXCEPT ![<<u, s>>].is_active = FALSE]
    ELSE rows

\* The context the next turn of <<u, s>> would start from.
Effective(memory, rows, u, s) == GetSessionContext(memory, rows, u, s, TRUE).context

\* ChatRequest.session_id is None
NoSession == << >>

Frame(u, s) ==
    [user |-> u, sid |-> s, pc |-> "PENDING", context |-> << >>,
     reply |-> "none", peers |-> {}, loadRaised |-> FALSE,
     before |-> [memory |-> << >>, rows |-> << >>],
     seen   |-> [memory |-> << >>, rows |-> << >>]]

\* The ChatResponse process_message returns (lines 46-51 and 55-60), with the
\* state the call ended in.
ChatResponse(r, frame, pc, success) ==
    [id |-> r, user |-> frame.user, session_id |-> frame.sid, pc |-> pc,
     success |-> success, peers |-> frame.peers]

NoResponse == [id |-> 0, user |-> 0, session_id |-> NoSession, pc |-> "none",
               success |-> FALSE, peers |-> {}]

Faults(b) == IF b THEN 0 ELSE 1

\* an awaited asynchronous client: other coroutines run during the call
GenerateYieldsAwaited == TRUE

\* _generate_response lines 65-71 call the synchronous Groq client: the
\* coroutine does not give the event loop back while it waits for the model.
GenerateYields == FALSE

\* api.py lines 42-43: a request without session id gets session_<user>_<time>
SessionId(u, t) == <<u, t>>
ChatSessionId(u, s, t) == IF s = NoSession THEN SessionId(u, t) ELSE s

Snapshot(memory, rows, s) ==
    [memory |-> Restrict(memory, {s}), rows |-> Restrict(rows, KeysOf(s))]

Broken == [ok |-> FALSE, saved |-> FALSE, msgs |-> << >>]

\* the history after something other than a turn of the session itself
\* touched what is stored for the keys in K
Disrupt(h, K) ==
    [k \in DOMAIN h |-> IF k \in K /\ h[k].msgs # << >> THEN Broken ELSE h[k]]

\* no clear_session call was the engine's last step
NoClear == [key |-> <<0, NoSession>>, n |-> 0, ok |-> TRUE]

\* POST /chat (api.py 33-50): the request is received and process_message is
\* called; it starts to run when the event loop is free.
ChatEndpoint(u, s) ==
    /\ nreq < cfg.maxReq
    /\ Cardinality(DOMAIN reqs) < cfg.maxInFlight
    /\ nreq' = nreq + 1
    /\ LET sid == ChatSessionId(u, s, now)
           same == {r \in DOMAIN reqs : reqs[r].sid = sid}
       IN reqs' = [r \in (DOMAIN reqs) \cup {nreq + 1} |->
                     IF r = nreq + 1 THEN [Frame(u, sid) EXCEPT !.peers = same]
                     ELSE IF r \in same
                          THEN [reqs[r] EXCEPT !.peers = @ \cup {nreq + 1}]
                          ELSE reqs[r]]
    /\ last_clear' = NoClear
    /\ UNCHANGED <<rateVars, agentVars>>
    /\ UNCHANGED <<last_response, conversation_memory, db_sessions, db_conversations, running,
                   nfault, now, turns, discarded, cfg>>

Submit(u, s) == ChatEndpoint(u, s) /\ UNCHANGED botVars

\* process_message lines 28-34: load the context, append the user message and
\* call the model.
Load(r) ==
    /\ r \in DOMAIN reqs
    /\ reqs[r].pc = "PENDING"
    /\ running = 0
    /\ LET u == reqs[r].user
           s == reqs[r].sid
       IN \E readFails \in BOOLEAN : LET readOk == ~readFails IN
            /\ (s \in DOMAIN conversation_memory) => readOk
            /\ nfault + Faults(readOk) <= cfg.maxFaults
            /\ nfault' = nfault + Faults(readOk)
            /\ LET got == GetSessionContext(conversation_memory, db_sessions, u, s, readOk)
                   mem == MemoryAfterAppend(got.memory, s, UserMsg(r))
               IN /\ conversation_memory' = mem
                  /\ reqs' = [reqs EXCEPT
                        ![r].pc = "CONTEXT_LOADED",
                        ![r].context = Append(got.context, UserMsg(r)),
                        ![r].loadRaised = readFails,
                        ![r].before = Snapshot(conversation_memory, db_sessions, s),
                        ![r].seen = Snapshot(mem, db_sessions, s)]
    /\ running' = IF GenerateYields THEN 0 ELSE r
    /\ last_clear' = NoClear
    /\ UNCHANGED <<rateVars, botVars, agentVars>>
    /\ UNCHANGED <<last_response, db_sessions, db_conversations, nreq, now, turns,
                   discarded, cfg>>

\* _generate_response lines 62-74: the model answers, or the call raises
\* (network failure, non-2xx, timeout after 30 s).
Generate(r) ==
    /\ r \in DOMAIN reqs
    /\ reqs[r].pc = "CONTEXT_LOADED"
    /\ running \in {0, r}
    /\ \E modelFails \in BOOLEAN : LET ok == ~modelFails IN
          /\ nfault + Faults(ok) <= cfg.maxFaults
          /\ nfault' = nfault + Faults(ok)
          /\ reqs' = [reqs EXCEPT ![r].pc = "MODEL_CALLED",
                                  ![r].reply = IF ok THEN "ok" ELSE "error"]
    /\ running' = r
    /\ last_clear' = NoClear
    /\ UNCHANGED <<rateVars, botVars, agentVars>>
    /\ UNCHANGED <<last_response, conversation_memory, db_sessions, db_conversations, nreq,
                   now, turns, discarded, cfg>>

\* process_message lines 36-51: append the reply, _update_session_context,
\* _log_conversation, return success.
Commit(r) ==
    /\ r \in DOMAIN reqs
    /\ reqs[r].pc = "MODEL_CALLED"
    /\ reqs[r].reply = "ok"
    /\ running = r
    /\ LET u == reqs[r].user
           s == reqs[r].sid
           full == Append(reqs[r].context, AssistantMsg(r))
           context == Truncate(full)
       IN \E dbFails \in BOOLEAN, logFails \in BOOLEAN :
          LET dbOk == ~dbFails
              logOk == ~logFails
          IN
            /\ nfault + Faults(dbOk) + Faults(logOk) <= cfg.maxFaults
            /\ nfault' = nfault + Faults(dbOk) + Faults(logOk)
            /\ conversation_memory' = MemoryPut(conversation_memory, s, context)
            /\ db_sessions' = RowsPut(db_sessions, u, s, context, now, dbOk)
            /\ db_conversations' = LogPut(db_conversations, u, r, logOk)
            /\ turns' = [k \in DOMAIN turns |->
                  IF k = <<u, s>>
                  THEN IF turns[k].ok
                       THEN [ok |-> TRUE, saved |-> dbOk,
                             msgs |-> turns[k].msgs \o <<UserMsg(r), AssistantMsg(r)>>]
                       ELSE Broken
                  ELSE IF k[2] = s THEN Broken ELSE turns[k]]
            /\ discarded' = discarded \cup Cut(s, full, context)
    /\ reqs' = Restrict(reqs, (DOMAIN reqs) \ {r})
    /\ last_response' = ChatResponse(r, reqs[r], "COMMITTED", TRUE)
    /\ running' = 0
    /\ last_clear' = NoClear
    /\ UNCHANGED <<rateVars, botVars, agentVars>>
    /\ UNCHANGED <<nreq, now, cfg>>

\* process_message lines 53-60: the except branch
Fail(r) ==
    /\ r \in DOMAIN reqs
    /\ reqs[r].pc = "MODEL_CALLED"
    /\ reqs[r].reply = "error"
    /\ running = r
    /\ reqs' = Restrict(reqs, (DOMAIN reqs) \ {r})
    /\ last_response' = ChatResponse(r, reqs[r], "FAILED", FALSE)
    /\ running' = 0
    /\ last_clear' = NoClear
    /\ UNCHANGED <<rateVars, botVars, agentVars>>
    /\ UNCHANGED <<conversation_memory, db_sessions, db_conversations, nreq,
                   nfault, now, turns, discarded, cfg>>

\* POST /sessions/clear (api.py 93-103) -> AIAgent.clear_session
ClearEndpoint(u, s) ==
    /\ running = 0
    /\ \E dbFails \in BOOLEAN : LET dbOk == ~dbFails IN
          /\ (<<u, s>> \notin DOMAIN db_sessions) => dbOk
          /\ nfault + 1 + Faults(dbOk) <= cfg.maxFaults
          /\ nfault' = nfault + 1 + Faults(dbOk)
          /\ db_sessions' = RowsDeactivate(db_sessions, u, s, dbOk)
          /\ last_clear' = [key |-> <<u, s>>, ok |-> dbOk,
                            n |-> IF last_clear.key = <<u, s>> THEN last_clear.n + 1 ELSE 1]
    /\ conversation_memory' = MemoryEvict(conversation_memory, s)
    /\ turns' = Disrupt(turns, {k \in DOMAIN turns : k[2] = s})
    /\ UNCHANGED <<rateVars, agentVars>>
    /\ UNCHANGED <<last_response, db_conversations, reqs, running, nreq, now, discarded, cfg>>

ClearSession(u, s) == ClearEndpoint(u, s) /\ UNCHANGED botVars

----------------------------------------------------------------------------
(* rate_limiter (app/bot/middleware.py). Handlers run as coroutines of one
   event loop (main.py 62-67, concurrent_updates): a wrapper runs without
   interruption from one await to the next. *)

\* no timestamp is ever dropped
PruneNothing(user_times, window_start) == user_times

\* lines 26-27: while user_times and user_times[0] < window_start: popleft()
RECURSIVE Prune(_, _)
Prune(user_times, window_start) ==
    IF user_times # << >> /\ Head(user_times) < window_start
    THEN Prune(Tail(user_times), window_start)
    ELSE user_times

\* len(user_times) > RATE_LIMIT_MESSAGES: one request too many passes
LimitReachedOffByOne(user_times) == Len(user_times) > RATE_LIMIT_MESSAGES

\* line 30: len(user_times) >= settings.RATE_LIMIT_MESSAGES
LimitReached(user_times) == Len(user_times) >= RATE_LIMIT_MESSAGES

\* the time of a rejected request is recorded as well
AfterRejectRecorded(user_times, current_time) == Append(user_times, current_time)

\* lines 30-36, the rejected branch: reply and return; the deque is left as
\* the pruning of lines 26-27 made it
AfterReject(user_times, current_time) == user_times

\* an await between the check of line 30 and the append of line 39
CheckYieldsAwaited == TRUE

\* lines 19-39 hold no await: the check and the append run in one piece
CheckYields == FALSE

Update(u) == [user |-> u, pc |-> "new", current_time |-> 0, seen |-> << >>]

Decide(log, u, t, admitted) ==
    [log EXCEPT ![u] = Append(@, [t |-> t, admitted |-> admitted])]

\* An update of user u arrives and its handler is scheduled.
Arrive(u) ==
    /\ nupd < cfg.maxUpdates
    /\ Cardinality(DOMAIN updates) < cfg.maxInFlight
    /\ nupd' = nupd + 1
    /\ updates' = [h \in (DOMAIN updates) \cup {nupd + 1} |->
                      IF h = nupd + 1 THEN Update(u) ELSE updates[h]]
    /\ UNCHANGED <<user_message_times, bot_running, rate_log, now, cfg>>
    /\ UNCHANGED <<engineVars, botVars, agentVars>>

\* wrapper lines 19-36: take the time, drop the timestamps older than the
\* window, check the count; over the limit, reply and return.
RateCheck(h) ==
    /\ h \in DOMAIN updates
    /\ updates[h].pc = "new"
    /\ bot_running = 0
    /\ LET u == updates[h].user
           current_time == now
           window_start == current_time - RATE_LIMIT_WINDOW
           user_times == Prune(user_message_times[u], window_start)
       IN /\ IF LimitReached(user_times)
             THEN /\ user_message_times' =
                        [user_message_times EXCEPT
                            ![u] = AfterReject(user_times, current_time)]
                  /\ updates' = Restrict(updates, (DOMAIN updates) \ {h})
                  /\ rate_log' = Decide(rate_log, u, current_time, FALSE)
                  /\ bot_running' = 0
             ELSE /\ user_message_times' = [user_message_times EXCEPT ![u] = user_times]
                  /\ updates' = [updates EXCEPT ![h].pc = "passed",
                                               ![h].current_time = current_time,
                                               ![h].seen = user_times]
                  /\ rate_log' = rate_log
                  /\ bot_running' = IF CheckYields THEN 0 ELSE h
    /\ UNCHANGED <<nupd, now, cfg>>
    /\ UNCHANGED <<engineVars, botVars, agentVars>>

\* wrapper lines 38-41: record the time and call the handler
RateAppend(h) ==
    /\ h \in DOMAIN updates
    /\ updates[h].pc = "passed"
    /\ bot_running \in {0, h}
    /\ LET u == updates[h].user
       IN /\ user_message_times' =
                [user_message_times EXCEPT ![u] = Append(@, updates[h].current_time)]
          /\ rate_log' = Decide(rate_log, u, updates[h].current_time, TRUE)
    /\ updates' = Restrict(updates, (DOMAIN updates) \ {h})
    /\ bot_running' = 0
    /\ UNCHANGED <<nupd, now, cfg>>
    /\ UNCHANGED <<engineVars, botVars, agentVars>>

\* A second passes (datetime.now() read as a clock that does not go back).
Tick ==
    /\ now < cfg.maxTime
    /\ bot_running = 0
    /\ running = 0
    /\ now' = now + 1
    /\ UNCHANGED <<engineVars, rateVars, botVars, agentVars, cfg>>

----------------------------------------------------------------------------
(* BotHandlers (app/bot/handlers.py). *)

\* handlers.py lines 171 and 130: f"session_{user_id}_{int(datetime.now().timestamp())}"
NewBotSession(u, t) == SessionId(u, t)

\* handle_message lines 161-177: take or make the user's session id and post
\* the message to /chat; a connection error leaves only the session id.
\* The decorators above the handler are comments (lines 159-160) and main.py
\* 165-172 calls it directly: no rate_limiter wrapper runs before it.
BotHandleMessage(u) ==
    /\ bot_running = 0
    /\ LET s == IF u \in DOMAIN user_sessions THEN user_sessions[u]
                ELSE NewBotSession(u, now)
       IN /\ user_sessions' = [x \in (DOMAIN user_sessions) \cup {u} |->
                                  IF x = u THEN s ELSE user_sessions[x]]
          /\ \E connFails \in BOOLEAN :
                IF connFails
                THEN /\ nfault < cfg.maxFaults
                     /\ nfault' = nfault + 1
                     /\ UNCHANGED <<conversation_memory, db_sessions, db_conversations,
                                    reqs, last_response, running, nreq, turns, discarded,
                                    last_clear, now, cfg>>
                     /\ UNCHANGED <<rateVars, agentVars>>
                ELSE ChatEndpoint(u, s)
    /\ UNCHANGED clearing

\* clear_command lines 119-127: read the user's session id and post it to
\* /sessions/clear; _clear_session swallows a connection error (lines 266-267).
BotClearCommand(u) ==
    /\ bot_running = 0
    /\ u \in DOMAIN user_sessions
    /\ u \notin clearing
    /\ clearing' = clearing \cup {u}
    /\ \E connFails \in BOOLEAN :
          IF connFails
          THEN /\ nfault < cfg.maxFaults
               /\ nfault' = nfault + 1
               /\ UNCHANGED <<conversation_memory, db_sessions, db_conversations,
                              reqs, last_response, running, nreq, turns, discarded,
                              last_clear, now, cfg>>
               /\ UNCHANGED <<rateVars, agentVars>>
          ELSE ClearEndpoint(u, user_sessions[u])
    /\ UNCHANGED user_sessions

\* clear_command lines 129-135, after the await: a new session id
BotClearReturn(u) ==
    /\ bot_running = 0
    /\ u \in clearing
    /\ clearing' = clearing \ {u}
    /\ user_sessions' = [x \in (DOMAIN user_sessions) \cup {u} |->
                            IF x = u THEN NewBotSession(u, now) ELSE user_sessions[x]]
    /\ UNCHANGED <<engineVars, rateVars, agentVars, now, cfg>>

----------------------------------------------------------------------------
(* The database-backed agent (app/ai_agent.py) with its SessionManager
   (app/utils/session.py) and tables (app/database.py). process_message is a
   synchronous function: one call is one step. *)

\* session_id is None
None == << >>

\* str(uuid.uuid4()): an id no other session has
Uuid(n) == <<"uuid", n>>

\* json.dumps of a dict: the text form, one <<key, value>> pair per key
dict_dumps(d) == {<<k, d[k]>> : k \in DOMAIN d}

\* json.loads of such a text: back to a dict
dict_loads(text) == [k \in {p[1] : p \in text} |-> (CHOOSE p \in text : p[1] = k)[2]]

\* context.get(key, default)
DictGet(d, key, default) == IF key \in DOMAIN d THEN d[key] ELSE default

DictSet(d, key, value) == [k \in (DOMAIN d) \cup {key} |-> IF k = key THEN value ELSE d[k]]

\* SessionManager.get_user_active_session: the rows .first() may return
UserActiveSessions(rows, u) ==
    {x \in DOMAIN rows : rows[x].user_id = u /\ rows[x].is_active}

\* the new row is added and the user's older sessions stay active
CreateSessionKeepsOld(rows, u, x, t) ==
    [y \in (DOMAIN rows) \cup {x} |->
        IF y = x
        THEN [user_id |-> u, context_data |-> dict_dumps(<< >>), is_active |-> TRUE,
              last_updated |-> t]
        ELSE rows[y]]

\* SessionManager.create_session lines 16-37: the table afterwards
CreateSession(rows, u, x, t) ==
    [y \in (DOMAIN rows) \cup {x} |->
        IF y = x
        THEN [user_id |-> u, context_data |-> dict_dumps(<< >>), is_active |-> TRUE,
              last_updated |-> t]
        ELSE IF rows[y].user_id = u /\ rows[y].is_active
             THEN [rows[y] EXCEPT !.is_active = FALSE]
             ELSE rows[y]]

\* SessionManager.get_session_context lines 61-69
AgentSessionContext(rows, x) ==
    IF x \in DOMAIN rows /\ rows[x].is_active /\ rows[x].context_data # {}
    THEN dict_loads(rows[x].context_data)
    ELSE << >>

\* SessionManager.update_session_context lines 53-59
UpdateSessionContext(rows, x, context, t) ==
    IF x \in DOMAIN rows /\ rows[x].is_active
    THEN [rows EXCEPT ![x].context_data = dict_dumps(context), ![x].last_updated = t]
    ELSE rows

\* Conversation.timestamp (database.py 34, default=datetime.utcnow): the clock
\* as read when row k of call id is inserted. The two rows of a call are
\* inserted by one commit; tie = TRUE is the clock giving both reads the same
\* value. The rows of a later call are stamped later.
Stamp(id, k, tie) == IF tie THEN 2 * id ELSE 2 * id + k

\* only the exchange as a whole is recorded, in one row without session_id
SaveConversationOneRow(log, u, x, id, tokens, tie) ==
    Append(log, [user_id |-> u, message_type |-> "exchange", content |-> id,
                 tokens_used |-> tokens, timestamp |-> Stamp(id, 0, tie)])

\* _save_conversation lines 107-130: a user row and an assistant row
SaveConversation(log, u, x, id, tokens, tie) ==
    log \o << [user_id |-> u, session_id |-> x, message_type |-> "user",
               content |-> UserMsg(id).content, tokens_used |-> 0,
               timestamp |-> Stamp(id, 0, tie)],
              [user_id |-> u, session_id |-> x, message_type |-> "assistant",
               content |-> AssistantMsg(id).content, tokens_used |-> tokens,
               timestamp |-> Stamp(id, 1, tie)] >>

\* the rows filter(Conversation.user_id == user_id, Conversation.session_id ==
\* session_id) selects (lines 94-97)
HistoryRows(log, u, x) ==
    {i \in 1..Len(log) : log[i].user_id = u /\ log[i].session_id = x}

\* the timestamps that more than one of the rows in S carries
TiedStamps(log, S) ==
    {log[i].timestamp : i \in {j \in S : \E k \in S : k # j /\ log[k].timestamp = log[j].timestamp}}

\* order_by(Conversation.timestamp.desc()): row i comes before row j. Rows
\* with equal timestamps come in the order the database chooses: for the
\* timestamps in rev the row inserted later first, for the others the row
\* inserted earlier first.
ComesBefore(log, i, j, rev) ==
    \/ log[i].timestamp > log[j].timestamp
    \/ /\ log[i].timestamp = log[j].timestamp
       /\ IF log[i].timestamp \in rev THEN i > j ELSE i < j

RECURSIVE Ordered(_, _, _)
Ordered(log, S, rev) ==
    IF S = {} THEN << >>
    ELSE LET i == CHOOSE i \in S : \A j \in S \ {i} : ComesBefore(log, i, j, rev)
         IN <<i>> \o Ordered(log, S \ {i}, rev)

Reversed(seq) == [i \in 1..Len(seq) |-> seq[Len(seq) + 1 - i]]

\* the first of the messages the model gets (lines 21-29 and 47)
SystemPrompt == Msg("system", 0)

\* _get_conversation_history lines 91-105: the newest limit * 2 rows of the
\* user in the session, oldest first, as {"role", "content"} dicts
ConversationHistory(log, u, x, rev) ==
    LET rows == Ordered(log, HistoryRows(log, u, x), rev)
        conversations == SubSeq(rows, 1, Min(HistoryLimit, Len(rows)))
        oldestFirst == Reversed(conversations)
    IN [n \in 1..Len(oldestFirst) |->
          Msg(IF log[oldestFirst[n]].message_type = "user" THEN "user" ELSE "assistant",
              log[oldestFirst[n]].content)]

\* process_message lines 47-49: the messages for the model
Messages(history, id) == <<SystemPrompt>> \o history \o <<UserMsg(id)>>

\* a model call that raised is made once more before the call gives up
ModelCallsRetried(messages, failAt) ==
    IF failAt \in {"session", "history"} THEN << >>
    ELSE IF failAt = "model" THEN <<messages, messages>> ELSE <<messages>>

\* process_message lines 36-57: the ChatCompletion.create calls of one
\* process_message call. An exception of lines 36-44 leaves the try before
\* line 52 is reached; line 52 is not in a loop, and the except of line 81
\* returns.
ModelCalls(messages, failAt) ==
    IF failAt \in {"session", "history"} THEN << >> ELSE <<messages>>

\* the dict process_message returns (lines 74-79 and 83-89); error is the
\* step whose exception line 88 reports, "none" in the dict of lines 74-79
AgentResult(id, u, x, tokens, success, error) ==
    [id |-> id, user |-> u, session_id |-> x, tokens_used |-> tokens, success |-> success,
     error |-> error]

AgentNoResult == AgentResult(0, 0, None, 0, FALSE, "none")

AgentOp(op, u, s, expired, raised) ==
    [op |-> op, user |-> u, given |-> s, expired |-> expired, raised |-> raised]

AgentNoOp == AgentOp("none", 0, None, {}, FALSE)

\* the steps of process_message at which an exception may be raised
AgentSteps == {"session", "history", "model", "save", "context"}

\* the session is looked up whatever session_id the caller gave
NoSessionGivenAlways(s) == TRUE

\* line 36: if not session_id
NoSessionGiven(s) == s = None

\* the session the user's calls without session id use
AgentLast(last, u, s, x) == IF NoSessionGiven(s) THEN [last EXCEPT ![u] = x] ELSE last

\* process_message(user_id, message, session_id) lines 31-89. failAt is the
\* step that raises, "none" when the call runs through; tokens is
\* response.usage.total_tokens (line 60), the smallest or the largest count
\* of the configuration.
AgentProcessMessage(u, s) ==
    /\ agent_calls < cfg.maxCalls
    /\ agent_calls' = agent_calls + 1
    /\ LET id == agent_calls + 1
           active == UserActiveSessions(agent_sessions, u)
       IN \E found \in IF NoSessionGiven(s) /\ active # {} THEN active ELSE {s} :
          LET create == NoSessionGiven(s) /\ active = {}
              x == IF create THEN Uuid(id) ELSE found
              tied == TiedStamps(agent_conversations,
                                 HistoryRows(agent_conversations, u, x))
              created == IF create THEN CreateSession(agent_sessions, u, x, now)
                         ELSE agent_sessions
              context == AgentSessionContext(created, x)
          IN \E rev \in SUBSET tied :
          LET messages == Messages(ConversationHistory(agent_conversations, u, x, rev), id)
          IN \E failAt \in {"none"} \cup AgentSteps, tokens \in {1, cfg.maxTokens},
                tie \in cfg.ties :
          LET updated == DictSet(DictSet(DictSet(context,
                            "last_message", UserMsg(id).content),
                            "last_response", AssistantMsg(id).content),
                            "total_tokens", DictGet(context, "total_tokens", 0) + tokens)
          IN CASE failAt = "session" ->
                    /\ NoSessionGiven(s)
                    /\ tokens = 1 /\ ~tie /\ rev = {}
                    /\ agent_result' = AgentResult(id, u, None, 0, FALSE, failAt)
                    /\ agent_prompts' = ModelCalls(messages, failAt)
                    /\ UNCHANGED <<agent_sessions, agent_conversations, agent_turns,
                                   agent_last>>
               [] failAt = "history" ->
                    /\ tokens = 1 /\ ~tie /\ rev = {}
                    /\ agent_sessions' = created
                    /\ agent_result' = AgentResult(id, u, x, 0, FALSE, failAt)
                    /\ agent_prompts' = ModelCalls(messages, failAt)
                    /\ agent_last' = AgentLast(agent_last, u, s, x)
                    /\ UNCHANGED <<agent_conversations, agent_turns>>
               [] failAt \in {"model", "save"} ->
                    /\ tokens = 1 /\ ~tie
                    /\ agent_sessions' = created
                    /\ agent_result' = AgentResult(id, u, x, 0, FALSE, failAt)
                    /\ agent_prompts' = ModelCalls(messages, failAt)
                    /\ agent_last' = AgentLast(agent_last, u, s, x)
                    /\ UNCHANGED <<agent_conversations, agent_turns>>
               [] failAt = "context" ->
                    /\ agent_sessions' = created
                    /\ agent_conversations' =
                          SaveConversation(agent_conversations, u, x, id, tokens, tie)
                    /\ agent_result' = AgentResult(id, u, x, 0, FALSE, failAt)
                    /\ agent_prompts' = ModelCalls(messages, failAt)
                    /\ agent_turns' = [agent_turns EXCEPT ![u].late = @ + 1]
                    /\ agent_last' = AgentLast(agent_last, u, s, x)
               [] failAt = "none" ->
                    /\ agent_sessions' = UpdateSessionContext(created, x, updated, now)
                    /\ agent_conversations' =
                          SaveConversation(agent_conversations, u, x, id, tokens, tie)
                    /\ agent_result' = AgentResult(id, u, x, tokens, TRUE, failAt)
                    /\ agent_prompts' = ModelCalls(messages, failAt)
                    /\ agent_turns' = [agent_turns EXCEPT ![u].ok = @ + 1]
                    /\ agent_last' = AgentLast(agent_last, u, s, x)
    /\ agent_op' = AgentOp("process", u, s, {}, FALSE)
    /\ UNCHANGED <<engineVars, rateVars, botVars, agent_stats, now, cfg>>

\* the sessions cleanup_expired_sessions selects at time t (lines 73-76):
\* last_updated < utcnow() - session_timeout
Expired(rows, t) == {x \in DOMAIN rows : rows[x].last_updated < t - session_timeout}

\* the rows of the expired sessions are deleted
CleanupDeletes(rows, t) == Restrict(rows, (DOMAIN rows) \ Expired(rows, t))

\* every session that is not expired is deactivated
CleanupInverted(rows, t) ==
    [x \in DOMAIN rows |->
        IF x \notin Expired(rows, t) THEN [rows[x] EXCEPT !.is_active = FALSE] ELSE rows[x]]

\* SessionManager.cleanup_expired_sessions lines 71-79: the table afterwards
CleanupExpiredSessions(rows, t) ==
    [x \in DOMAIN rows |->
        IF x \in Expired(rows, t) THEN [rows[x] EXCEPT !.is_active = FALSE] ELSE rows[x]]

\* the records of the sessions a reap deactivates go with them
ConversationsAfterCleanupPurged(log, rows, t) ==
    LET Kept(c) == c.session_id \notin Expired(rows, t) IN SelectSeq(log, Kept)

\* cleanup_expired_sessions lines 75-79 update user_sessions only: the
\* conversations table afterwards
ConversationsAfterCleanup(log, rows, t) == log

\* the admin's cleanup (telegram_bot.py 319-322): SessionManager(db).
\* cleanup_expired_sessions(); raised = TRUE is the database raising before
\* the commit, which the caller gets as an exception.
AgentCleanup ==
    /\ \E raised \in BOOLEAN :
          /\ agent_sessions' = IF raised THEN agent_sessions
                               ELSE CleanupExpiredSessions(agent_sessions, now)
          /\ agent_conversations' =
                IF raised THEN agent_conversations
                ELSE ConversationsAfterCleanup(agent_conversations, agent_sessions, now)
          /\ agent_op' = AgentOp("cleanup", 0, None,
                                 IF raised THEN {} ELSE Expired(agent_sessions, now), raised)
    /\ agent_last' = [u \in DOMAIN agent_last |-> None]
    /\ UNCHANGED <<agent_result, agent_calls, agent_turns, agent_stats, agent_prompts>>
    /\ UNCHANGED <<engineVars, rateVars, botVars, now, cfg>>

\* clear_user_history(user_id) lines 154-169: UserSession is not imported by
\* app/ai_agent.py (lines 1-8), so line 159 raises NameError, which line 167
\* catches: nothing is written and False is returned.
AgentClearUserHistory(u) ==
    /\ agent_op' = AgentOp("clear", u, None, {}, TRUE)
    /\ agent_last' = [agent_last EXCEPT ![u] = None]
    /\ UNCHANGED <<agent_sessions, agent_conversations, agent_result, agent_calls,
                   agent_turns, agent_stats, agent_prompts>>
    /\ UNCHANGED <<engineVars, rateVars, botVars, now, cfg>>

\* the names app/ai_agent.py binds from app.database (line 6): Conversation;
\* UserSession, which lines 148 and 159 use, is not among them
UserSessionImported == FALSE

\* sum([t[0] for t in total_tokens if t[0]]) (line 143) over the rows of a log
RECURSIVE SumTokens(_)
SumTokens(log) ==
    IF log = << >> THEN 0
    ELSE (IF Head(log).tokens_used # 0 THEN Head(log).tokens_used ELSE 0)
         + SumTokens(Tail(log))

\* the records filter(Conversation.user_id == user_id) selects (lines 135-141)
UserRecords(log, u) == LET Mine(c) == c.user_id = u IN SelectSeq(log, Mine)

StatsRaised(u) ==
    [user |-> u, raised |-> TRUE, total_messages |-> 0, total_tokens_used |-> 0,
     active_sessions |-> 0]

NoStats ==
    [user |-> 0, raised |-> FALSE, total_messages |-> 0, total_tokens_used |-> 0,
     active_sessions |-> 0]

\* get_user_stats(user_id) lines 132-152: the two queries on conversations
\* run, then the dict of lines 145-152 is built, whose third value names
\* UserSession: with the name unbound the expression raises NameError, which
\* nothing in the function catches.
GetUserStats(log, rows, u) ==
    LET total_conversations == Len(UserRecords(log, u))
        total_tokens_used == SumTokens(UserRecords(log, u))
    IN IF UserSessionImported
       THEN [user |-> u, raised |-> FALSE,
             total_messages |-> total_conversations,
             total_tokens_used |-> total_tokens_used,
             active_sessions |-> Cardinality(UserActiveSessions(rows, u))]
       ELSE StatsRaised(u)

\* the /stats command (telegram_bot.py 127-128): AIAgent(db).get_user_stats
AgentGetUserStats(u) ==
    /\ agent_stats' = GetUserStats(agent_conversations, agent_sessions, u)
    /\ agent_op' = AgentOp("stats", u, None, {}, agent_stats'.raised)
    /\ UNCHANGED <<agent_sessions, agent_conversations, agent_result, agent_calls,
                   agent_turns, agent_last, agent_prompts>>
    /\ UNCHANGED <<engineVars, rateVars, botVars, now, cfg>>

\* The process restarts: ai_agent = AIAgent() (lines 17-20, 180) starts with an
\* empty conversation_memory, user_message_times (middleware.py 11) and
\* BotHandlers.user_sessions (handlers.py 31) are empty again; the tables
\* survive, calls in flight are lost.
Restart ==
    /\ nfault < cfg.maxFaults
    /\ nfault' = nfault + 1
    /\ conversation_memory' = << >>
    /\ reqs' = << >>
    /\ running' = 0
    /\ turns' = Disrupt(turns, DOMAIN turns)
    /\ user_message_times' = [u \in DOMAIN user_message_times |-> << >>]
    /\ updates' = << >>
    /\ bot_running' = 0
    /\ user_sessions' = << >>
    /\ clearing' = {}
    /\ last_clear' = NoClear
    /\ UNCHANGED <<last_response, db_sessions, db_conversations, nreq, now, cfg,
                   nupd, rate_log, discarded>>
    /\ UNCHANGED agentVars

EngineNext ==
    \/ \E u \in cfg.users, s \in cfg.sids \cup {NoSession} : Submit(u, s)
    \/ \E r \in DOMAIN reqs : Load(r)
    \/ \E r \in DOMAIN reqs : Generate(r)
    \/ \E r \in DOMAIN reqs : Commit(r)
    \/ \E r \in DOMAIN reqs : Fail(r)
    \/ \E u \in cfg.users, s \in cfg.sids : ClearSession(u, s)
    \/ Restart

Start(c) ==
    /\ cfg = c
    /\ conversation_memory = << >>
    /\ db_sessions = << >>
    /\ db_conversations = << >>
    /\ reqs = << >>
    /\ last_response = NoResponse
    /\ running = 0
    /\ nreq = 0
    /\ nfault = 0
    /\ now = 0
    /\ turns = [k \in c.users \X c.sids |-> [ok |-> TRUE, saved |-> FALSE, msgs |-> << >>]]
    /\ discarded = {}
    /\ last_clear = NoClear
    /\ user_message_times = [u \in c.users |-> << >>]
    /\ updates = << >>
    /\ bot_running = 0
    /\ nupd = 0
    /\ rate_log = [u \in c.users |-> << >>]
    /\ user_sessions = << >>
    /\ clearing = {}
    /\ agent_sessions = << >>
    /\ agent_conversations = << >>
    /\ agent_result = AgentNoResult
    /\ agent_calls = 0
    /\ agent_turns = [u \in c.users |-> [ok |-> 0, late |-> 0]]
    /\ agent_op = AgentNoOp
    /\ agent_last = [u \in c.users |-> None]
    /\ agent_stats = NoStats
    /\ agent_prompts = << >>

\* The engine with several users and sessions and concurrent requests.
Init ==
    Start([users |-> Users, sids |-> {SessionId(1, 0)},
                maxReq |-> MaxReq, maxFaults |-> MaxFaults,
                maxInFlight |-> MaxInFlight, maxUpdates |-> 0, maxTime |-> 0])

Next == EngineNext

Spec == Init /\ [][Next]_vars

\* The engine while the process stays up. Calls are coroutines of one event
\* loop, which runs every coroutine that is ready; the model call returns or
\* raises when its timeout of 30 s ends (ai_agent.py 70).
NextLive ==
    \/ \E u \in cfg.users, s \in cfg.sids \cup {NoSession} : Submit(u, s)
    \/ \E r \in DOMAIN reqs : Load(r)
    \/ \E r \in DOMAIN reqs : Generate(r)
    \/ \E r \in DOMAIN reqs : Commit(r)
    \/ \E r \in DOMAIN reqs : Fail(r)
    \/ \E u \in cfg.users, s \in cfg.sids : ClearSession(u, s)

\* the next step of the coroutine of call r
ProcessMessage(r) == Load(r) \/ Generate(r) \/ Commit(r) \/ Fail(r)

FairLive == \A r \in 1..LiveMaxReq : WF_vars(ProcessMessage(r))

InitLive ==
    Start([users |-> {1}, sids |-> {SessionId(1, 0), SessionId(1, 1)},
           maxReq |-> LiveMaxReq, maxFaults |-> LiveMaxFaults,
           maxInFlight |-> LiveMaxReq, maxUpdates |-> 0, maxTime |-> 0])

SpecLive == InitLive /\ [][NextLive]_vars /\ FairLive

\* The engine under repeated clear_session calls, for a session with a row,
\* for one without, and with the table update failing.
InitClear ==
    Start([users |-> {1, 2}, sids |-> {SessionId(1, 0)},
           maxReq |-> ClearMaxReq, maxFaults |-> ClearMaxFaults,
           maxInFlight |-> ClearMaxReq, maxUpdates |-> 0, maxTime |-> 0])

SpecClear == InitClear /\ [][NextLive]_vars

\* One session of one user over enough turns for the context to be truncated.
InitTurns ==
    Start([users |-> {1}, sids |-> {SessionId(1, 0)},
                maxReq |-> TurnsMaxReq, maxFaults |-> TurnsMaxFaults,
                maxInFlight |-> 1, maxUpdates |-> 0, maxTime |-> 0])

SpecTurns == InitTurns /\ [][Next]_vars

\* The rate limiter under concurrent updates, with time passing.
InitRate ==
    Start([users |-> Users, sids |-> {},
           maxReq |-> 0, maxFaults |-> 0,
           maxInFlight |-> MaxInFlight, maxUpdates |-> MaxUpdates,
           maxTime |-> MaxTime])

NextRate ==
    \/ \E u \in cfg.users : Arrive(u)
    \/ \E h \in DOMAIN updates : RateCheck(h)
    \/ \E h \in DOMAIN updates : RateAppend(h)
    \/ Tick

SpecRate == InitRate /\ [][NextRate]_vars

\* The bot in front of the engine: session ids made by the bot, /clear,
\* restarts, time passing.
InitBot ==
    Start([users |-> Users,
           sids |-> {NewBotSession(u, t) : u \in Users, t \in 0..BotMaxTime},
           maxReq |-> MaxReq, maxFaults |-> MaxFaults,
           maxInFlight |-> MaxInFlight, maxUpdates |-> 0,
           maxTime |-> BotMaxTime])

NextBot ==
    \/ \E u \in cfg.users : BotHandleMessage(u)
    \/ \E u \in cfg.users : BotClearCommand(u)
    \/ \E u \in cfg.users : BotClearReturn(u)
    \/ \E r \in DOMAIN reqs : Load(r)
    \/ \E r \in DOMAIN reqs : Generate(r)
    \/ \E r \in DOMAIN reqs : Commit(r)
    \/ \E r \in DOMAIN reqs : Fail(r)
    \/ Restart
    \/ Tick

SpecBot == InitBot /\ [][NextBot]_vars

\* The database-backed agent: two users; calls without session id, with the
\* id of a session of the table, and with an id the table does not hold.
InitAgent ==
    Start([users |-> {1, 2}, sids |-> {},
           maxReq |-> 0, maxFaults |-> 0,
           maxInFlight |-> 0, maxUpdates |-> 0, maxTime |-> 0,
           maxCalls |-> MaxAgentCalls, maxTokens |-> MaxTokens, ties |-> {FALSE}])

NextAgent ==
    \E u \in cfg.users, s \in (DOMAIN agent_sessions) \cup {None, Uuid(0)} :
       AgentProcessMessage(u, s)

SpecAgent == InitAgent /\ [][NextAgent]_vars

\* The database-backed agent with time passing: turns, the admin's cleanup
\* of expired sessions, and clear_user_history.
InitReap ==
    Start([users |-> {1, 2}, sids |-> {},
           maxReq |-> 0, maxFaults |-> 0,
           maxInFlight |-> 0, maxUpdates |-> 0, maxTime |-> ReapMaxTime,
           maxCalls |-> ReapMaxCalls, maxTokens |-> 1, ties |-> {FALSE}])

NextReap ==
    \/ \E u \in cfg.users, s \in (DOMAIN agent_sessions) \cup {None} :
          AgentProcessMessage(u, s)
    \/ AgentCleanup
    \/ \E u \in cfg.users : AgentClearUserHistory(u)
    \/ Tick

SpecReap == InitReap /\ [][NextReap]_vars

\* The database-backed agent with the /stats command between the turns.
InitStats ==
    Start([users |-> {1, 2}, sids |-> {},
           maxReq |-> 0, maxFaults |-> 0,
           maxInFlight |-> 0, maxUpdates |-> 0, maxTime |-> 0,
           maxCalls |-> ReapMaxCalls, maxTokens |-> MaxTokens, ties |-> {FALSE}])

NextStats ==
    \/ \E u \in cfg.users, s \in (DOMAIN agent_sessions) \cup {None} :
          AgentProcessMessage(u, s)
    \/ \E u \in cfg.users : AgentGetUserStats(u)

SpecStats == InitStats /\ [][NextStats]_vars

\* The database-backed agent with the clock of the audit rows: the two rows
\* of a turn may carry the same timestamp.
InitHistory ==
    Start([users |-> {1, 2}, sids |-> {},
           maxReq |-> 0, maxFaults |-> 0,
           maxInFlight |-> 0, maxUpdates |-> 0, maxTime |-> 0,
           maxCalls |-> MaxAgentCalls, maxTokens |-> 1, ties |-> BOOLEAN])

NextHistory ==
    \E u \in cfg.users, s \in (DOMAIN agent_sessions) \cup {None} :
       AgentProcessMessage(u, s)

SpecHistory == InitHistory /\ [][NextHistory]_vars

----------------------------------------------------------------------------
(* Properties of the engine. *)

Rows(s) == {k \in DOMAIN db_sessions : k[2] = s /\ db_sessions[k].context # NULL}

StoredContext(k) == json_loads(db_sessions[k].context)

\* C1: every non-empty context held in the cache or persisted for a session
\* has a message of role system at index 0, also after truncations.
C1_SystemFirst ==
    /\ \A s \in DOMAIN conversation_memory :
          conversation_memory[s] # << >> => conversation_memory[s][1].role = "system"
    /\ \A k \in DOMAIN db_sessions :
          db_sessions[k].context # NULL => StoredContext(k)[1].role = "system"

\* a truncated context is cached and persisted: the first turn's user message
\* is gone from a context of full length
C1_Witness ==
    \E k \in DOMAIN db_sessions :
       /\ k[2] \in DOMAIN conversation_memory
       /\ Len(conversation_memory[k[2]]) = MaxContext
       /\ conversation_memory[k[2]][2] # UserMsg(1)
       /\ Len(StoredContext(k)) = MaxContext
       /\ StoredContext(k)[2] # UserMsg(1)

\* C2: after a turn commits, the context in the cache and the context
\* persisted for the session have at most 20 messages.
C2_LengthCap ==
    /\ \A s \in DOMAIN conversation_memory : Len(conversation_memory[s]) <= MaxContext
    /\ \A k \in DOMAIN db_sessions : Len(db_sessions[k].context) <= MaxContext

\* the eleventh turn of a session has just committed (23 messages before the
\* cut) and both copies hold 20
C2_Witness ==
    /\ last_response.pc = "COMMITTED"
    /\ <<last_response.user, last_response.session_id>> \in DOMAIN turns
    /\ LET k == <<last_response.user, last_response.session_id>>
       IN /\ Len(turns[k].msgs) >= 22
          /\ Len(conversation_memory[k[2]]) = MaxContext
          /\ k \in DOMAIN db_sessions
          /\ Len(db_sessions[k].context) = MaxContext

\* C3: from a session with no stored context, after k successful turns the
\* context is the seed followed by the last min(2k, 19) of the 2k turn
\* messages in order, of length min(1 + 2k, 20); after the 10th turn only the
\* first user message is gone. The persisted copy is the same whenever the
\* last write went through.
C3_ContextAfterTurns ==
    \A k \in DOMAIN turns :
       (turns[k].ok /\ turns[k].msgs # << >>) =>
          LET msgs == turns[k].msgs
              expected == DefaultContext \o Last(msgs, Min(Len(msgs), KeepLast))
          IN /\ k[2] \in DOMAIN conversation_memory
             /\ conversation_memory[k[2]] = expected
             /\ Len(conversation_memory[k[2]]) = Min(1 + Len(msgs), MaxContext)
             /\ (Len(msgs) = MaxContext =>
                    conversation_memory[k[2]] = DefaultContext \o Tail(msgs))
             /\ turns[k].saved =>
                    /\ k \in DOMAIN db_sessions
                    /\ StoredContext(k) = expected

\* ten consecutive turns have committed and the write went through
C3_Witness ==
    \E k \in DOMAIN turns :
       /\ turns[k].ok
       /\ turns[k].saved
       /\ Len(turns[k].msgs) = MaxContext
       /\ conversation_memory[k[2]][2] = AssistantMsg(1)

FailStep(r) ==
    /\ r \in DOMAIN reqs
    /\ reqs[r].pc = "MODEL_CALLED"
    /\ reqs[r].reply = "error"
    /\ last_response'.id = r
    /\ last_response'.pc = "FAILED"

\* C4: when the model call of a turn fails, the cached and the persisted
\* context of the session are what they were before the call began, and the
\* context a later turn starts from is the same: nothing of the aborted turn
\* is visible. (A cache miss may have filled the cache from the table with
\* exactly the persisted context.)
C4_FailedTurnLeavesContext ==
    [][\A r \in DOMAIN reqs : FailStep(r) =>
          LET u == reqs[r].user
              s == reqs[r].sid
              before == reqs[r].before
          IN /\ Restrict(db_sessions', KeysOf(s)) = before.rows
             /\ Effective(conversation_memory', db_sessions', u, s)
                   = Effective(before.memory, before.rows, u, s)
             /\ (s \in DOMAIN before.memory =>
                    Restrict(conversation_memory', {s}) = before.memory)
             /\ (s \notin DOMAIN before.memory /\ s \in DOMAIN conversation_memory' =>
                    /\ <<u, s>> \in DOMAIN before.rows
                    /\ conversation_memory'[s] = json_loads(before.rows[<<u, s>>].context))
      ]_vars

\* a turn failed on a session whose cached context holds an earlier turn
C4_Witness ==
    /\ last_response.pc = "FAILED"
    /\ last_response.session_id \in DOMAIN conversation_memory
    /\ Len(conversation_memory[last_response.session_id]) >= 3

CommitStep(r) ==
    /\ r \in DOMAIN reqs
    /\ reqs[r].pc = "MODEL_CALLED"
    /\ reqs[r].reply = "ok"
    /\ last_response'.id = r
    /\ last_response'.pc = "COMMITTED"

\* no turn wrote the cache entry or the rows of a session while another turn
\* of that session is between its load and its persist
NoStaleFrame ==
    \A r \in DOMAIN reqs :
       reqs[r].pc \in {"CONTEXT_LOADED", "MODEL_CALLED"} =>
          Snapshot(conversation_memory, db_sessions, reqs[r].sid) = reqs[r].seen

\* a commit extends the cached context it finds by its own two messages
CommitExtends ==
    \A r \in DOMAIN reqs : CommitStep(r) =>
       LET s == reqs[r].sid
       IN s \in DOMAIN conversation_memory =>
             conversation_memory'[s] =
                Truncate(conversation_memory[s] \o <<UserMsg(r), AssistantMsg(r)>>)

\* C5: the load, append and persist steps of concurrent turns on one session
\* do not interleave, and no turn's append is overwritten by another turn's
\* write: the final context holds the messages of every such turn.
C5_TurnsSerialized == [] NoStaleFrame /\ [][CommitExtends]_vars

\* two turns of one session were in flight together, both committed, and the
\* cached context holds the messages of both
C5_Witness ==
    /\ last_response.pc = "COMMITTED"
    /\ last_response.peers # {}
    /\ last_response.session_id \in DOMAIN conversation_memory
    /\ LET context == conversation_memory[last_response.session_id]
       IN \A r \in last_response.peers \cup {last_response.id} :
             \E i \in 1..Len(context), j \in 1..Len(context) :
                context[i] = UserMsg(r) /\ context[j] = AssistantMsg(r)

\* C9: after every cache put the context persisted for the session id equals
\* the cached one; the cache never holds a context that differs from what
\* the table holds for the session.
C9_CacheEqualsStore ==
    running = 0 =>
       \A s \in DOMAIN conversation_memory :
          /\ Rows(s) # {}
          /\ \A k \in Rows(s) : StoredContext(k) = conversation_memory[s]

\* C10: a context written through the cache reads the same on a cache hit as
\* from the table after the entry was evicted, by clear_session or by the
\* loss of the cache.
C10_RoundTrip ==
    ( /\ running = 0
      /\ last_response.pc = "COMMITTED"
      /\ last_response.session_id \in DOMAIN conversation_memory
      /\ conversation_memory[last_response.session_id]
            [Len(conversation_memory[last_response.session_id])]
            = AssistantMsg(last_response.id) ) =>
       LET u == last_response.user
           s == last_response.session_id
           hit == Effective(conversation_memory, db_sessions, u, s)
           evicted == MemoryEvict(conversation_memory, s)
       IN /\ Effective(evicted, db_sessions, u, s) = hit
          /\ Effective(evicted, RowsDeactivate(db_sessions, u, s, TRUE), u, s) = hit

\* the contexts _get_session_context has returned to the turns in flight
Returned(r) == SubSeq(reqs[r].context, 1, Len(reqs[r].context) - 1)

\* C11: a message that a truncation has cut from a session's context is in no
\* context returned for that session afterwards, be it read from the cache or
\* loaded from the table after the cache entry is gone.
C11_NoResurrection ==
    \A r \in DOMAIN reqs :
       reqs[r].pc = "CONTEXT_LOADED" =>
          \A i \in 1..Len(Returned(r)) : <<reqs[r].sid, Returned(r)[i]>> \notin discarded

\* the table holds the context that turn r built for <<u, s>>
ContextSaved(rows, u, s, r) ==
    /\ <<u, s>> \in DOMAIN rows
    /\ rows[<<u, s>>].context # NULL
    /\ json_loads(rows[<<u, s>>].context)[Len(rows[<<u, s>>].context)] = AssistantMsg(r)

\* the conversations table holds a record of turn r
AuditWritten(log, r) == \E i \in 1..Len(log) : log[i].message = r

\* C12: when the model call of a turn succeeded and saving the context to
\* the table or writing the audit record failed, process_message returns
\* success = false.
C12_PersistenceFailureReported ==
    [][\A r \in DOMAIN reqs :
          ( /\ reqs[r].pc = "MODEL_CALLED"
            /\ reqs[r].reply = "ok"
            /\ last_response'.id = r
            /\ \/ ~ContextSaved(db_sessions', reqs[r].user, reqs[r].sid, r)
               \/ ~AuditWritten(db_conversations', r) )
          => ~last_response'.success
      ]_vars

\* C15: every successful turn of the backend engine appends two audit
\* records, one for the user message and one for the assistant message, each
\* naming the session the turn was committed to.
C15_TwoSessionRecords ==
    [][\A r \in DOMAIN reqs : CommitStep(r) =>
          LET n == Len(db_conversations)
          IN /\ Len(db_conversations') = n + 2
             /\ SubSeq(db_conversations', 1, n) = db_conversations
             /\ \A i \in (n + 1)..(n + 2) :
                   /\ "session_id" \in DOMAIN db_conversations'[i]
                   /\ db_conversations'[i].session_id = reqs[r].sid
      ]_vars

\* C18: while one turn waits for the model's answer, a turn of another
\* session can start: the pending model call does not hold it back.
C18_UnrelatedTurnsProgress ==
    \A r1 \in DOMAIN reqs, r2 \in DOMAIN reqs :
       ( /\ reqs[r1].pc = "CONTEXT_LOADED"
         /\ reqs[r2].pc = "PENDING"
         /\ reqs[r2].sid # reqs[r1].sid ) => ENABLED Load(r2)

\* C30: process_message returns a result for every call, and whenever
\* something failed inside the turn (the load of the context, the model call,
\* the write of the context or of the audit record) the result has success =
\* false and carries the session id of the call.
C30_FailuresReported ==
    [][\A r \in DOMAIN reqs :
          ( /\ reqs[r].pc = "MODEL_CALLED"
            /\ last_response'.id = r
            /\ \/ reqs[r].loadRaised
               \/ reqs[r].reply = "error"
               \/ ~ContextSaved(db_sessions', reqs[r].user, reqs[r].sid, r)
               \/ ~AuditWritten(db_conversations', r) )
          => /\ ~last_response'.success
             /\ last_response'.session_id = reqs[r].sid
      ]_vars

Terminal == {"COMMITTED", "FAILED"}

\* a call moves from PENDING to CONTEXT_LOADED to MODEL_CALLED, one state at
\* a time, and leaves from MODEL_CALLED with one terminal result; a call that
\* has ended takes no further step
StepOrder ==
    /\ \A r \in DOMAIN reqs' :
          IF r \notin DOMAIN reqs
          THEN r = nreq + 1 /\ reqs'[r].pc = "PENDING"
          ELSE <<reqs[r].pc, reqs'[r].pc>> \in
                  { <<"PENDING", "PENDING">>, <<"PENDING", "CONTEXT_LOADED">>,
                    <<"CONTEXT_LOADED", "CONTEXT_LOADED">>,
                    <<"CONTEXT_LOADED", "MODEL_CALLED">>,
                    <<"MODEL_CALLED", "MODEL_CALLED">> }
    /\ \A r \in (DOMAIN reqs) \ (DOMAIN reqs') :
          /\ reqs[r].pc = "MODEL_CALLED"
          /\ last_response'.id = r
          /\ last_response'.pc \in Terminal
          /\ last_response'.success = (last_response'.pc = "COMMITTED")
    /\ last_response' # last_response =>
          last_response'.id \in (DOMAIN reqs) \ (DOMAIN reqs')

ContextsOf(rows) == [k \in DOMAIN rows |-> rows[k].context]

\* contexts and audit records are written by the step that commits only
PersistOnCommit ==
    (ContextsOf(db_sessions') # ContextsOf(db_sessions)
        \/ db_conversations' # db_conversations) =>
       \E r \in DOMAIN reqs : CommitStep(r)

Holds(context, r) ==
    \E i \in 1..Len(context) : context[i] \in {UserMsg(r), AssistantMsg(r)}

\* nothing of a call that has not ended is in the cache, the table or the log
InFlightInvisible ==
    \A r \in DOMAIN reqs :
       /\ \A s \in DOMAIN conversation_memory : ~Holds(conversation_memory[s], r)
       /\ \A k \in DOMAIN db_sessions :
             db_sessions[k].context # NULL => ~Holds(StoredContext(k), r)
       /\ ~AuditWritten(db_conversations, r)

\* C19: every process_message call goes through PENDING, CONTEXT_LOADED and
\* MODEL_CALLED in this order and ends in exactly one of COMMITTED and
\* FAILED; it ends eventually, given that the model call returns or times
\* out; no step follows the end; the context and the audit record are
\* written only after MODEL_CALLED, by the step to COMMITTED.
C19_RequestLifecycle ==
    /\ [][StepOrder /\ PersistOnCommit]_vars
    /\ [] InFlightInvisible
    /\ \A r \in 1..LiveMaxReq :
          [](r \in DOMAIN reqs =>
                <>(last_response.id = r /\ last_response.pc \in Terminal))

\* two calls have ended, one COMMITTED and the other FAILED
C19_Witness ==
    /\ nreq = 2
    /\ reqs = << >>
    /\ last_response.pc = "FAILED"
    /\ Len(db_conversations) = 1

\* C20: clear_session(user_id, session_id) leaves the session that matches
\* both arguments inactive and out of the cache, and leaves unchanged every
\* audit record, the is_active flag of every other session, and the cached
\* and the stored context of every session that does not match both.
C20_ClearFrame ==
    [][\A u \in cfg.users, s \in cfg.sids : ClearSession(u, s) =>
          /\ <<u, s>> \in DOMAIN db_sessions => ~db_sessions'[<<u, s>>].is_active
          /\ s \notin DOMAIN conversation_memory'
          /\ db_conversations' = db_conversations
          /\ DOMAIN db_sessions' = DOMAIN db_sessions
          /\ \A k \in DOMAIN db_sessions : k # <<u, s>> =>
                /\ db_sessions'[k] = db_sessions[k]
                /\ k[2] \in DOMAIN conversation_memory =>
                      /\ k[2] \in DOMAIN conversation_memory'
                      /\ conversation_memory'[k[2]] = conversation_memory[k[2]]
      ]_vars

\* the session id of call r was in no cache entry and in no row when the call
\* loaded its context
UnknownSession(r) == reqs[r].before = [memory |-> << >>, rows |-> << >>]

\* the fresh context is held for session s of user u, in the cache or the table
FreshStored(u, s) ==
    \/ /\ s \in DOMAIN conversation_memory
       /\ conversation_memory[s] = DefaultContext
    \/ /\ <<u, s>> \in DOMAIN db_sessions
       /\ db_sessions[<<u, s>>].context # NULL
       /\ StoredContext(<<u, s>>) = DefaultContext

\* C22: _get_session_context for a session id unknown to the cache and to
\* the table returns the context made of the system seed message alone and
\* stores it, so that it is held for the session once the load has returned.
C22_UnknownSessionSeeded ==
    \A r \in DOMAIN reqs :
       (reqs[r].pc = "CONTEXT_LOADED" /\ UnknownSession(r)) =>
          /\ Returned(r) = DefaultContext
          /\ FreshStored(reqs[r].user, reqs[r].sid)

\* what clear_session(u, s) leaves of a cache and a table
ClearResult(st, u, s, dbOk) ==
    [memory |-> MemoryEvict(st.memory, s), rows |-> RowsDeactivate(st.rows, u, s, dbOk)]

\* two calls in a row leave what one call leaves, whichever of the table
\* updates went through
TwiceIsOnce ==
    LET st == [memory |-> conversation_memory, rows |-> db_sessions]
    IN \A u \in cfg.users, s \in cfg.sids, ok1 \in BOOLEAN, ok2 \in BOOLEAN :
          ClearResult(ClearResult(st, u, s, ok1), u, s, ok2)
             = ClearResult(st, u, s, ok1 \/ ok2)

\* a call that repeats the call before it changes nothing, unless the update
\* of the call before failed; a call for a session without a row or with an
\* inactive row changes no row and adds none
RepeatedClear ==
    \A u \in cfg.users, s \in cfg.sids : ClearSession(u, s) =>
       /\ <<conversation_memory', db_sessions'>> \in
             {<<ClearResult([memory |-> conversation_memory, rows |-> db_sessions],
                            u, s, ok).memory,
                ClearResult([memory |-> conversation_memory, rows |-> db_sessions],
                            u, s, ok).rows>> : ok \in BOOLEAN}
       /\ last_clear.key = <<u, s>> =>
             /\ conversation_memory' = conversation_memory
             /\ last_clear.ok => db_sessions' = db_sessions
       /\ (<<u, s>> \notin DOMAIN db_sessions \/ ~db_sessions[<<u, s>>].is_active) =>
             db_sessions' = db_sessions
       /\ db_conversations' = db_conversations

\* C21: clear_session(user_id, session_id) called twice in a row leaves the
\* cache and the table as one call leaves them, and a call for a session that
\* is inactive already or has no row completes and changes nothing.
C21_ClearIdempotent == [] TwiceIsOnce /\ [][RepeatedClear]_vars

\* a session with a stored context has been cleared twice in a row
C21_Witness ==
    /\ last_clear.n = 2
    /\ last_clear.key \in DOMAIN db_sessions
    /\ db_sessions[last_clear.key].context # NULL
    /\ ~db_sessions[last_clear.key].is_active

\* the rows the table holds for session s under other users than b
RowsOfOthers(b, s) == {k \in DOMAIN db_sessions : k[2] = s /\ k[1] # b}

\* the load step of call r
LoadStep(r) ==
    /\ r \in DOMAIN reqs
    /\ reqs[r].pc = "PENDING"
    /\ r \in DOMAIN reqs'
    /\ reqs'[r].pc = "CONTEXT_LOADED"

\* no message stored for session s under another user is in the context
\* that the load of call r has built
PromptIsOwn(r) ==
    LoadStep(r) =>
       \A k \in RowsOfOthers(reqs[r].user, reqs[r].sid) :
          db_sessions[k].context # NULL =>
             \A i \in 2..Len(StoredContext(k)), j \in 1..Len(reqs'[r].context) :
                reqs'[r].context[j] # StoredContext(k)[i]

\* the commit of call r leaves the context that the next turn of every other
\* user on the session starts from as it was
OthersUntouched(r) ==
    CommitStep(r) =>
       \A k \in RowsOfOthers(reqs[r].user, reqs[r].sid) :
          Effective(conversation_memory', db_sessions', k[1], k[2])
             = Effective(conversation_memory, db_sessions, k[1], k[2])

\* C35: a turn of user B with a session id that user A holds a row for
\* neither gets A's messages into the prompt built for B nor changes the
\* context A's later turns on the session start from, whether A's context
\* is cached or not.
C35_UsersIsolated ==
    [][\A r \in DOMAIN reqs : PromptIsOwn(r) /\ OthersUntouched(r)]_vars

\* the commit of call r finds a stored context for its session and writes
\* the row
PersistsOver(r) ==
    /\ CommitStep(r)
    /\ <<reqs[r].user, reqs[r].sid>> \in DOMAIN db_sessions
    /\ db_sessions[<<reqs[r].user, reqs[r].sid>>].context # NULL
    /\ db_sessions'[<<reqs[r].user, reqs[r].sid>>] # db_sessions[<<reqs[r].user, reqs[r].sid>>]

\* C36: a committed turn on a session that has a stored context persists
\* the truncation of that context followed by the turn's user message and
\* assistant message. It does not start again from the seed, also not when
\* the cache entry is gone, the session is inactive or the read has failed.
C36_TurnExtendsStored ==
    [][\A r \in DOMAIN reqs : PersistsOver(r) =>
          LET k == <<reqs[r].user, reqs[r].sid>>
          IN json_loads(db_sessions'[k].context)
                = Truncate(StoredContext(k) \o <<UserMsg(r), AssistantMsg(r)>>)
      ]_vars

\* the commit of a call on a session whose row is inactive leaves the row as
\* it is and the session out of the cache
Frozen(r) ==
    LET k == <<reqs[r].user, reqs[r].sid>>
    IN (CommitStep(r) /\ k \in DOMAIN db_sessions /\ ~db_sessions[k].is_active) =>
          /\ db_sessions'[k] = db_sessions[k]
          /\ k[2] \notin DOMAIN conversation_memory'

\* a cached session id that has rows in the table has an active one
CachedAreActive ==
    \A s \in DOMAIN conversation_memory :
       LET rows == {k \in DOMAIN db_sessions : k[2] = s}
       IN rows # {} => \E k \in rows : db_sessions[k].is_active

\* C37: after clear_session(u, s) no later process_message of u with session
\* id s rewrites the stored context of s or puts s back into the cache; a
\* session id in the cache is an active session in the table.
C37_InactiveFrozen ==
    [] CachedAreActive /\ [][\A r \in DOMAIN reqs : Frozen(r)]_vars

----------------------------------------------------------------------------
(* Properties of the rate limiter. *)

Admissions(u, from, to) ==
    {i \in 1..Len(rate_log[u]) :
        /\ rate_log[u][i].admitted
        /\ from <= rate_log[u][i].t
        /\ rate_log[u][i].t <= to}

\* all decisions taken for u so far fall on one instant
Burst(u) == \A i \in 1..Len(rate_log[u]) : rate_log[u][i].t = rate_log[u][1].t

\* C6: for each user the wrapped handler runs at most RATE_LIMIT_MESSAGES
\* times in any interval of RATE_LIMIT_WINDOW seconds, and of N + 1 requests
\* of one user at one instant exactly N are admitted and one is rejected.
C6_RateLimit ==
    \A u \in DOMAIN rate_log :
       /\ \A t \in 0..now :
             Cardinality(Admissions(u, t, t + RATE_LIMIT_WINDOW)) <= RATE_LIMIT_MESSAGES
       /\ (Len(rate_log[u]) = RATE_LIMIT_MESSAGES + 1 /\ Burst(u)) =>
             /\ \A i \in 1..RATE_LIMIT_MESSAGES : rate_log[u][i].admitted
             /\ ~rate_log[u][RATE_LIMIT_MESSAGES + 1].admitted

\* N + 1 requests of one user at one instant have been decided, and later,
\* once the window has passed, the user is admitted again
C6_Witness ==
    \E u \in DOMAIN rate_log :
       /\ Len(rate_log[u]) = RATE_LIMIT_MESSAGES + 2
       /\ \A i \in 1..(RATE_LIMIT_MESSAGES + 1) : rate_log[u][i].t = 0
       /\ ~rate_log[u][RATE_LIMIT_MESSAGES + 1].admitted
       /\ rate_log[u][RATE_LIMIT_MESSAGES + 2].admitted

Passed(u) == {h \in DOMAIN updates : updates[h].user = u /\ updates[h].pc = "passed"}

\* C7: prune, check and append of one user are one atomic step for the other
\* requests of that user: no two requests pass the check on the same count
\* (a request that passed still finds the timestamps it counted when it
\* appends), and never more than N timestamps are recorded in one window.
C7_CheckAppendAtomic ==
    \A u \in DOMAIN user_message_times :
       /\ Cardinality(Passed(u)) <= 1
       /\ \A h \in Passed(u) : user_message_times[u] = updates[h].seen
       /\ Len(user_message_times[u]) <= RATE_LIMIT_MESSAGES

\* two requests of one user are in flight at the last free slot of the window:
\* one has passed the check, the other has not run yet
C7_Witness ==
    \E h1 \in DOMAIN updates, h2 \in DOMAIN updates :
       /\ updates[h1].user = updates[h2].user
       /\ updates[h1].pc = "passed"
       /\ updates[h2].pc = "new"
       /\ Len(user_message_times[updates[h1].user]) = RATE_LIMIT_MESSAGES - 1

IsAdmitted(d) == d.admitted

\* the times at which the wrapped handler was called for u, in order
AdmittedTimes(u) ==
    LET a == SelectSeq(rate_log[u], IsAdmitted) IN [i \in 1..Len(a) |-> a[i].t]

RejectStep(u) ==
    /\ Len(rate_log'[u]) = Len(rate_log[u]) + 1
    /\ ~rate_log'[u][Len(rate_log'[u])].admitted

\* the deque holds times of calls of the handler only: the latest of them
OnlyAdmittedRecorded ==
    \A u \in DOMAIN user_message_times :
       /\ Len(user_message_times[u]) <= Len(AdmittedTimes(u))
       /\ user_message_times[u] = Last(AdmittedTimes(u), Len(user_message_times[u]))

\* a rejection adds nothing to the deque and calls no handler
RejectAddsNothing ==
    \A u \in DOMAIN rate_log : RejectStep(u) =>
       /\ user_message_times'[u] =
             Prune(user_message_times[u], now - RATE_LIMIT_WINDOW)
       /\ AdmittedTimes(u)' = AdmittedTimes(u)

\* C17: when the rate limiter rejects a request it appends no timestamp to
\* the user's deque and does not call the wrapped handler, so the rejected
\* request does not count against later admissions.
C17_RejectLeavesNoTrace == [] OnlyAdmittedRecorded /\ [][RejectAddsNothing]_vars

\* a user was rejected and then admitted at a time when the rejected request
\* and N - 1 admitted ones lie in the window: had it counted, no slot was free
C17_Witness ==
    \E u \in DOMAIN rate_log :
       LET n == Len(rate_log[u])
       IN /\ n >= RATE_LIMIT_MESSAGES + 2
          /\ rate_log[u][n].admitted
          /\ ~rate_log[u][n - 1].admitted
          /\ rate_log[u][n - 1].t >= rate_log[u][n].t - RATE_LIMIT_WINDOW
          /\ Cardinality(Admissions(u, rate_log[u][n].t - RATE_LIMIT_WINDOW,
                                       rate_log[u][n].t))
                = RATE_LIMIT_MESSAGES

\* the wrapper of update h runs its check in this step
Checked(h) ==
    /\ updates[h].pc = "new"
    /\ h \in DOMAIN updates' => updates'[h].pc # "new"

\* the check lets update h through to the handler
Passes(h) == h \in DOMAIN updates' /\ updates'[h].pc = "passed"

\* the oldest timestamp recorded for u is more than W seconds old
OldestExpired(u) ==
    /\ user_message_times[u] # << >>
    /\ Head(user_message_times[u]) < now - RATE_LIMIT_WINDOW

\* the last request of u, admitted or rejected, is at least d seconds back
SilentFor(u, d) ==
    /\ rate_log[u] # << >>
    /\ rate_log[u][Len(rate_log[u])].t + d <= now

\* C39 as stated: a request made when the oldest recorded timestamp of the
\* identity is older than W seconds is admitted, and so is the next request
\* of an identity that has stayed silent for W seconds.
C39_SilentAdmitted ==
    [][\A h \in DOMAIN updates :
          ( /\ Checked(h)
            /\ OldestExpired(updates[h].user) \/ SilentFor(updates[h].user, RATE_LIMIT_WINDOW) )
          => Passes(h)
      ]_vars

\* C39 (amended): a request made when the oldest recorded timestamp of the
\* identity is older than W seconds is admitted, and so is the next request
\* of an identity that has stayed silent for more than W seconds; a
\* rejection therefore never lasts.
C39_RejectionEnds ==
    [][\A h \in DOMAIN updates :
          ( /\ Checked(h)
            /\ OldestExpired(updates[h].user)
                  \/ SilentFor(updates[h].user, RATE_LIMIT_WINDOW + 1) )
          => Passes(h)
      ]_vars

\* a user who filled the window in one instant and was rejected has been
\* admitted on the first request after that instant was more than W seconds
\* back, with nothing left of the old timestamps
C39_Witness ==
    \E u \in DOMAIN rate_log :
       LET n == Len(rate_log[u])
       IN /\ n = RATE_LIMIT_MESSAGES + 2
          /\ \A i \in 1..RATE_LIMIT_MESSAGES : rate_log[u][i].admitted
          /\ ~rate_log[u][n - 1].admitted
          /\ rate_log[u][n].admitted
          /\ rate_log[u][n].t = rate_log[u][1].t + RATE_LIMIT_WINDOW + 1
          /\ user_message_times[u] = <<rate_log[u][n].t>>

\* C16: every message handle_message forwards to the backend was admitted by
\* the rate limiter before, so a request of the backend always has an
\* admission of its user behind it; a rejected message never reaches it.
C16_AdmittedBeforeForward ==
    \A r \in DOMAIN reqs : Admissions(reqs[r].user, 0, now) # {}

\* C25: a newly generated session id differs from the ids generated before;
\* after /clear the session id the bot tracks for the user is another one
\* than the id it has just cleared, however short the session has lived.
C25_ClearGivesNewSession ==
    [][\A u \in cfg.users :
          BotClearReturn(u) => user_sessions'[u] # user_sessions[u]]_vars

\* the requests the backend receives in this step
Received == (DOMAIN reqs') \ (DOMAIN reqs)

\* C38: once clear_command has posted the clear of a user's session s, no
\* message of that user reaches the backend under session id s, whatever
\* handlers of the user run while clear_command waits for the backend.
C38_ClearedSessionUnused ==
    [][\A u \in clearing : \A r \in Received :
          reqs'[r].user = u => reqs'[r].sid # user_sessions[u]]_vars

----------------------------------------------------------------------------
(* Properties of the session table. *)

ActiveSessions(u) == {k \in DOMAIN db_sessions : k[1] = u /\ db_sessions[k].is_active}

\* C8: in every reachable state of the session table each user has at most
\* one session with is_active true.
C8_OneActiveSession == \A u \in cfg.users : Cardinality(ActiveSessions(u)) <= 1

----------------------------------------------------------------------------
(* Properties of the database-backed agent. *)

AgentReturns == agent_calls' = agent_calls + 1

\* C13: whenever process_message returns success = false the conversations
\* table is what it was before the call, whichever step of the turn failed.
C13_FailedTurnWritesNoAudit ==
    [][(AgentReturns /\ ~agent_result'.success) =>
          agent_conversations' = agent_conversations]_vars

\* C23: a call of process_message with a session_id returns that session_id
\* in its result, when it succeeds and when it fails, and creates no session.
C23_GivenSessionReturned ==
    [][(AgentReturns /\ agent_op'.given # None) =>
          /\ agent_result'.session_id = agent_op'.given
          /\ DOMAIN agent_sessions' = DOMAIN agent_sessions
      ]_vars

\* a call has failed and its result names a session of another user: the id
\* was given by the caller
C23_Witness ==
    /\ agent_op.op = "process"
    /\ agent_op.given # None
    /\ ~agent_result.success
    /\ agent_result.session_id \in DOMAIN agent_sessions
    /\ agent_sessions[agent_result.session_id].user_id # agent_result.user

\* a call without session id that got past the session lookup used the
\* user's active session and created none, or, the user having none, created
\* one session, which is then the user's only active one, and returned its id
SessionResolved ==
    (AgentReturns /\ agent_op'.given = None /\ agent_result'.session_id # None) =>
          LET u == agent_op'.user
              active == UserActiveSessions(agent_sessions, u)
              x == agent_result'.session_id
          IN /\ active # {} =>
                   /\ x \in active
                   /\ DOMAIN agent_sessions' = DOMAIN agent_sessions
             /\ active = {} =>
                   /\ x \notin DOMAIN agent_sessions
                   /\ DOMAIN agent_sessions' = (DOMAIN agent_sessions) \cup {x}
                   /\ agent_sessions'[x].user_id = u
             /\ UserActiveSessions(agent_sessions', u) = {x}
             /\ \A y \in DOMAIN agent_sessions :
                   agent_sessions[y].user_id # u =>
                      agent_sessions'[y].is_active = agent_sessions[y].is_active
             /\ agent_last[u] # None => x = agent_last[u]

\* create_session for a user of any reachable table leaves the new session as
\* the user's only active one and the sessions of the other users as they are
CreateDeactivatesOthers ==
    \A u \in cfg.users :
       LET x == Uuid(agent_calls + 1)
           after == CreateSession(agent_sessions, u, x, now)
       IN /\ UserActiveSessions(after, u) = {x}
          /\ DOMAIN after = (DOMAIN agent_sessions) \cup {x}
          /\ \A y \in DOMAIN agent_sessions :
                /\ agent_sessions[y].user_id # u => after[y] = agent_sessions[y]
                /\ after[y] = [agent_sessions[y] EXCEPT !.is_active = after[y].is_active]

\* C24: a call of process_message without session id uses the user's active
\* session and creates none, or, when the user has no active session, creates
\* exactly one, with every other active session of the user deactivated in
\* the same step, and returns the new id; consecutive calls of a user without
\* session id, with no clear and no reap in between, use the same session.
C24_SessionResolution ==
    /\ [] CreateDeactivatesOthers
    /\ [] (\A u \in cfg.users : Cardinality(UserActiveSessions(agent_sessions, u)) <= 1)
    /\ [][SessionResolved]_vars

\* the second call of a user without session id has returned, later than the
\* first, with the session the first call created
C24_Witness ==
    /\ agent_op.op = "process"
    /\ agent_op.given = None
    /\ agent_calls = 2
    /\ agent_result.success
    /\ agent_result.session_id = Uuid(1)
    /\ agent_sessions[Uuid(1)].user_id = agent_result.user
    /\ agent_sessions[Uuid(1)].last_updated > 0

\* a cleanup that ran to its commit
CleanupStep == AgentCleanup /\ ~agent_op'.raised

\* C26: after cleanup_expired_sessions has run at time now, every session
\* whose last_updated is older than now - session_timeout is inactive, every
\* other session has the is_active it had, and no session row and no audit
\* record is removed or changed otherwise.
C26_CleanupExpired ==
    [][CleanupStep =>
          /\ DOMAIN agent_sessions' = DOMAIN agent_sessions
          /\ \A x \in DOMAIN agent_sessions :
                /\ agent_sessions[x].last_updated < now - session_timeout =>
                      ~agent_sessions'[x].is_active
                /\ agent_sessions[x].last_updated >= now - session_timeout =>
                      agent_sessions'[x].is_active = agent_sessions[x].is_active
                /\ agent_sessions'[x] =
                      [agent_sessions[x] EXCEPT !.is_active = agent_sessions'[x].is_active]
          /\ agent_conversations' = agent_conversations
      ]_vars

\* a cleanup has deactivated a session and has left active a session whose
\* last_updated lies exactly session_timeout seconds back; records of both
\* are in the table
C26_Witness ==
    /\ agent_op.op = "cleanup"
    /\ ~agent_op.raised
    /\ \E x \in agent_op.expired, y \in DOMAIN agent_sessions :
          /\ ~agent_sessions[x].is_active
          /\ agent_sessions[y].is_active
          /\ agent_sessions[y].last_updated = now - session_timeout
          /\ \E i \in 1..Len(agent_conversations), j \in 1..Len(agent_conversations) :
                /\ agent_conversations[i].session_id = x
                /\ agent_conversations[j].session_id = y

\* C27: every turn that process_message reports as committed leaves the
\* last_updated of its session at the time of the commit, which keeps the
\* session active through a reap less than session_timeout later, and a
\* failed turn changes the last_updated of no session.
C27_TurnBumpsLastUpdated ==
    [][AgentReturns =>
             IF agent_result'.success
             THEN LET x == agent_result'.session_id
                  IN /\ x \in DOMAIN agent_sessions'
                     /\ agent_sessions'[x].last_updated = now
                     /\ agent_sessions'[x].is_active
                     /\ x \notin Expired(agent_sessions', now + session_timeout)
             ELSE \A y \in DOMAIN agent_sessions :
                     agent_sessions'[y].last_updated = agent_sessions[y].last_updated
      ]_vars

\* from one table of sessions to the next no row is gone, no row has changed
\* its owner and no inactive row is active again
OnlyDeactivated(rows, next) ==
    /\ DOMAIN rows \subseteq DOMAIN next
    /\ \A x \in DOMAIN rows : next[x].is_active => rows[x].is_active

\* C28: no operation (create, process, clear, reap) deletes a session row and
\* none sets is_active back to true on a deactivated session: the only change
\* of a row's lifecycle is from active to inactive.
C28_SessionsOnlyDeactivated ==
    [][/\ OnlyDeactivated(agent_sessions, agent_sessions')
       /\ \A x \in DOMAIN agent_sessions :
             agent_sessions'[x].user_id = agent_sessions[x].user_id
      ]_vars

\* a user's session was reaped and the user has a new active session; the
\* reaped row is still in the table, inactive
C28_Witness ==
    \E x \in DOMAIN agent_sessions, y \in DOMAIN agent_sessions :
       /\ agent_sessions[x].user_id = agent_sessions[y].user_id
       /\ ~agent_sessions[x].is_active
       /\ agent_sessions[y].is_active
       /\ agent_op.op = "process"

\* C29: over process, clear and reap operations the sequence of Conversation
\* records only grows: every record stays where it is and as it is, also
\* after its session has been deactivated.
C29_AuditAppendOnly ==
    [][/\ Len(agent_conversations') >= Len(agent_conversations)
       /\ SubSeq(agent_conversations', 1, Len(agent_conversations)) = agent_conversations
      ]_vars

\* a cleanup has just deactivated a session whose two records are in the table
C29_Witness ==
    /\ agent_op.op = "cleanup"
    /\ \E x \in agent_op.expired :
          /\ ~agent_sessions[x].is_active
          /\ \E i \in 1..Len(agent_conversations) :
                /\ i < Len(agent_conversations)
                /\ agent_conversations[i].session_id = x
                /\ agent_conversations[i].message_type = "user"
                /\ agent_conversations[i + 1].session_id = x
                /\ agent_conversations[i + 1].message_type = "assistant"

\* a step of clear_user_history: no other step leaves "clear" as the last
\* operation while the clock stands
ClearHistoryStep == agent_op'.op = "clear" /\ now' = now

\* C31: clear_user_history(user_id) returns True and leaves every session of
\* the user inactive, and the sessions of the other users and all Conversation
\* records as they were.
C31_ClearUserHistory ==
    [][ClearHistoryStep =>
          LET u == agent_op'.user
          IN /\ ~agent_op'.raised
             /\ UserActiveSessions(agent_sessions', u) = {}
             /\ DOMAIN agent_sessions' = DOMAIN agent_sessions
             /\ \A y \in DOMAIN agent_sessions :
                   agent_sessions[y].user_id # u => agent_sessions'[y] = agent_sessions[y]
             /\ agent_conversations' = agent_conversations
      ]_vars

\* the records of session x, in the order in which they were written
SessionRecords(x) ==
    LET InSession(c) == c.session_id = x IN SelectSeq(agent_conversations, InSession)

\* C33: the messages process_message sends to the model are the system prompt,
\* then the last (at most 20) records of the session, oldest first, each with
\* the role it was recorded with, then the new user message; a session with
\* a recorded turn gives at least 3 messages, the turn's two among them.
C33_PromptFromHistory ==
    [][(AgentReturns /\ agent_prompts' # << >>) =>
          LET records == SessionRecords(agent_result'.session_id)
              recent == Last(records, Min(HistoryLimit, Len(records)))
              messages == agent_prompts'[1]
          IN /\ Len(messages) = Len(recent) + 2
             /\ messages[1].role = "system"
             /\ \A n \in 1..Len(recent) :
                   messages[n + 1] = Msg(recent[n].message_type, recent[n].content)
             /\ messages[Len(messages)] = UserMsg(agent_result'.id)
             /\ records # << >> => Len(messages) >= 3
      ]_vars

RECURSIVE TokensOf(_)
TokensOf(S) ==
    IF S = {} THEN 0
    ELSE LET i == CHOOSE i \in S : TRUE
         IN agent_conversations[i].tokens_used + TokensOf(S \ {i})

\* C32: get_user_stats(user_id) returns the number of the user's Conversation
\* records, the sum of their tokens_used and the number of the user's active
\* sessions, and changes no table.
C32_UserStats ==
    [][agent_op'.op = "stats" =>
          LET u == agent_op'.user
              mine == {i \in 1..Len(agent_conversations) :
                         agent_conversations[i].user_id = u}
          IN /\ ~agent_stats'.raised
             /\ agent_stats'.total_messages = Cardinality(mine)
             /\ agent_stats'.total_tokens_used = TokensOf(mine)
             /\ agent_stats'.active_sessions =
                   Cardinality(UserActiveSessions(agent_sessions, u))
             /\ agent_sessions' = agent_sessions
             /\ agent_conversations' = agent_conversations
      ]_vars

RecordsOf(u) == {i \in 1..Len(agent_conversations) : agent_conversations[i].user_id = u}

\* a successful turn appends a user record and then an assistant record
TwoRecords ==
    (AgentReturns /\ agent_result'.success) =>
       LET n == Len(agent_conversations)
           res == agent_result'
       IN /\ Len(agent_conversations') = n + 2
          /\ SubSeq(agent_conversations', 1, n) = agent_conversations
          /\ res.session_id # None
          /\ agent_conversations'[n + 1] =
                [user_id |-> res.user, session_id |-> res.session_id,
                 message_type |-> "user", content |-> res.id, tokens_used |-> 0,
                 timestamp |-> agent_conversations'[n + 1].timestamp]
          /\ agent_conversations'[n + 2] =
                [user_id |-> res.user, session_id |-> res.session_id,
                 message_type |-> "assistant", content |-> res.id,
                 tokens_used |-> res.tokens_used,
                 timestamp |-> agent_conversations'[n + 2].timestamp]

\* k successful turns of a user, and no other turn that wrote, leave 2k records
TwoPerTurn ==
    \A u \in DOMAIN agent_turns :
       agent_turns[u].late = 0 => Cardinality(RecordsOf(u)) = 2 * agent_turns[u].ok

====
